---- MODULE Spec2Model ----
(***************************************************************************)
(* Order intake of the Herman Perfume server (src/server.js): validation   *)
(* and normalisation of an order payload, persistence through the Order    *)
(* model (schema validators, pre-save order number, unique index), the     *)
(* order update, and the best-effort email/SMS dispatch.                   *)
(*                                                                         *)
(* Every request handler is cut at the awaits on real I/O: the database    *)
(* call and the mail transport.  Between two such awaits a handler runs    *)
(* without another handler interleaving (one Node event loop).             *)
(***************************************************************************)
EXTENDS Integers, Sequences, FiniteSets, TLC

(***************************************************************************)
(* Bounds of the model.                                                    *)
(***************************************************************************)
\* request slots: handlers that may be in flight at the same time
MaxReq == 2
\* orders the store holds at most
MaxOrders == 2
\* the suffixes Math.floor(Math.random() * 1000) is cut down to: 0..SuffixRange-1
SuffixRange == 2
\* the clock runs 0..MaxTime
MaxTime == 2
\* clock ticks of one calendar day
TicksPerDay == 2

(***************************************************************************)
(* JavaScript values of a JSON body.  A string is a sequence of tokens;    *)
(* the token " " is white space.                                           *)
(***************************************************************************)
Undefined == [t |-> "undefined"]
Str(s) == [t |-> "string", s |-> s]
Num(n) == [t |-> "number", n |-> n, nan |-> FALSE]
NaN == [t |-> "number", n |-> 0, nan |-> TRUE]
Arr(a) == [t |-> "array", a |-> a]

\* JavaScript's ToBoolean: what `!x`, `x ? a : b` and `x || y` test
Truthy(v) ==
  CASE v.t = "undefined" -> FALSE
    [] v.t = "string" -> Len(v.s) > 0
    [] v.t = "number" -> ~v.nan /\ v.n # 0
    [] OTHER -> TRUE

\* typeof x === 'number' (NaN is a number)
IsNumber(v) == v.t = "number"

\* x <= 0 on a number (any comparison with NaN is false)
LeqZero(v) == ~v.nan /\ v.n <= 0

RECURSIVE TrimLeft(_)
TrimLeft(s) ==
  IF s = <<>> THEN s
  ELSE IF Head(s) = " " THEN TrimLeft(Tail(s)) ELSE s

RECURSIVE TrimRight(_)
TrimRight(s) ==
  IF s = <<>> THEN s
  ELSE IF s[Len(s)] = " " THEN TrimRight(SubSeq(s, 1, Len(s) - 1)) ELSE s

\* String.prototype.trim
Trim(s) == TrimRight(TrimLeft(s))

\* x.trim() throws a TypeError on a value that is no string
TrimThrows(v) == v.t # "string"

\* Number(x): undefined is NaN, a number is itself, a string of white space
\* only is 0 and any other string of this alphabet is NaN
ToNumber(v) ==
  CASE v.t = "undefined" -> NaN
    [] v.t = "number" -> v
    [] v.t = "string" -> IF Trim(v.s) = <<>> THEN Num(0) ELSE NaN
    [] OTHER -> NaN

\* Number(x) || 0
NumberOrZero(v) == IF Truthy(ToNumber(v)) THEN ToNumber(v) ELSE Num(0)

(***************************************************************************)
(* Request validation of POST /api/orders, in the order of the code.       *)
(* ValidationError(p) is the error of the first failing check, "" if none. *)
(***************************************************************************)
ErrMissing == "Missing required order information"
ErrCustomer == "Customer name and phone are required"
ErrDelivery == "Delivery address and city are required"
ErrMethod == "Valid payment method is required (bkash or cod)"
ErrTransaction == "Transaction ID is required for bKash payment"
ErrNoItems == "Order must contain at least one item"
ErrItemFields == "Each item must have productId, name, price, and quantity"
ErrItemPrice == "Item price must be a positive number"
ErrItemQuantity == "Item quantity must be a positive number"
ErrTotal == "Valid order total is required"

\* orderData.items.length: of an array or of a string
LengthOf(v) == IF v.t = "array" THEN Len(v.a) ELSE IF v.t = "string" THEN Len(v.s) ELSE 0

PaymentMethods == {Str(<<"bkash">>), Str(<<"cod">>)}

ItemError(item) ==
  IF ~Truthy(item.productId) \/ ~Truthy(item.name) \/ ~Truthy(item.price)
       \/ ~Truthy(item.quantity)
  THEN ErrItemFields
  ELSE IF ~IsNumber(item.price) \/ LeqZero(item.price) THEN ErrItemPrice
  ELSE IF ~IsNumber(item.quantity) \/ LeqZero(item.quantity) THEN ErrItemQuantity
  ELSE ""

\* for (let item of orderData.items): the error of the first item that has one
RECURSIVE ItemsError(_)
ItemsError(items) ==
  IF items = <<>> THEN ""
  ELSE IF ItemError(Head(items)) # "" THEN ItemError(Head(items))
  ELSE ItemsError(Tail(items))

TransactionIdMissing(payment) ==
  payment.method = Str(<<"bkash">>) /\ ~Truthy(payment.transactionId)

TotalsInvalid(totals) ==
  ~Truthy(totals) \/ ~IsNumber(totals.total) \/ LeqZero(totals.total)

\* the checks with the totals checked together with the other sections
ValidationErrorTotalsFirst(p) ==
  IF ~Truthy(p.customer) \/ ~Truthy(p.delivery) \/ ~Truthy(p.payment)
       \/ ~Truthy(p.items) \/ LengthOf(p.items) = 0
  THEN ErrMissing
  ELSE IF TotalsInvalid(p.totals) THEN ErrTotal
  ELSE IF ~Truthy(p.customer.firstName) \/ ~Truthy(p.customer.lastName)
            \/ ~Truthy(p.customer.phone)
  THEN ErrCustomer
  ELSE IF ~Truthy(p.delivery.address) \/ ~Truthy(p.delivery.city) THEN ErrDelivery
  ELSE IF ~Truthy(p.payment.method) \/ p.payment.method \notin PaymentMethods
  THEN ErrMethod
  ELSE IF TransactionIdMissing(p.payment) THEN ErrTransaction
  ELSE IF p.items.t # "array" \/ LengthOf(p.items) = 0 THEN ErrNoItems
  ELSE IF ItemsError(p.items.a) # "" THEN ItemsError(p.items.a)
  ELSE ""

ValidationError(p) ==
  IF ~Truthy(p.customer) \/ ~Truthy(p.delivery) \/ ~Truthy(p.payment)
       \/ ~Truthy(p.items) \/ LengthOf(p.items) = 0
  THEN ErrMissing
  ELSE IF ~Truthy(p.customer.firstName) \/ ~Truthy(p.customer.lastName)
            \/ ~Truthy(p.customer.phone)
  THEN ErrCustomer
  ELSE IF ~Truthy(p.delivery.address) \/ ~Truthy(p.delivery.city) THEN ErrDelivery
  ELSE IF ~Truthy(p.payment.method) \/ p.payment.method \notin PaymentMethods
  THEN ErrMethod
  ELSE IF TransactionIdMissing(p.payment) THEN ErrTransaction
  ELSE IF p.items.t # "array" \/ LengthOf(p.items) = 0 THEN ErrNoItems
  ELSE IF ItemsError(p.items.a) # "" THEN ItemsError(p.items.a)
  ELSE IF TotalsInvalid(p.totals) THEN ErrTotal
  ELSE ""

(***************************************************************************)
(* Normalisation: the cleanOrderData literal and the three deletes.        *)
(***************************************************************************)
Absent == [t |-> "absent"]
S(x) == Str(<<x>>)

\* a property that was deleted or never set reads as undefined
Read(v) == IF v = Absent THEN Undefined ELSE v

\* x ? x.trim() : undefined
TrimOrUndefined(v) == IF Truthy(v) THEN Str(Trim(v.s)) ELSE Undefined

\* x ? x.trim() : ''
TrimOrEmpty(v) == IF Truthy(v) THEN Str(Trim(v.s)) ELSE Str(<<>>)

\* a .trim() of the literal is called on a value that is no string
CleanThrows(p) ==
  \/ TrimThrows(p.customer.firstName) \/ TrimThrows(p.customer.lastName)
  \/ TrimThrows(p.customer.phone)
  \/ (Truthy(p.customer.email) /\ TrimThrows(p.customer.email))
  \/ TrimThrows(p.delivery.address) \/ TrimThrows(p.delivery.city)
  \/ (Truthy(p.delivery.postalCode) /\ TrimThrows(p.delivery.postalCode))
  \/ (Truthy(p.payment.transactionId) /\ TrimThrows(p.payment.transactionId))
  \/ \E i \in 1..Len(p.items.a) : TrimThrows(p.items.a[i].name)
  \/ (Truthy(p.orderNotes) /\ TrimThrows(p.orderNotes))

CleanItem(item) ==
  [productId |-> item.productId,
   name |-> Str(Trim(item.name.s)),
   price |-> ToNumber(item.price),
   quantity |-> ToNumber(item.quantity),
   category |-> IF Truthy(item.category) THEN item.category ELSE S("other")]

CleanLiteral(p, time) ==
  [customer |-> [firstName |-> Str(Trim(p.customer.firstName.s)),
                 lastName |-> Str(Trim(p.customer.lastName.s)),
                 phone |-> Str(Trim(p.customer.phone.s)),
                 email |-> TrimOrUndefined(p.customer.email)],
   delivery |-> [address |-> Str(Trim(p.delivery.address.s)),
                 city |-> Str(Trim(p.delivery.city.s)),
                 postalCode |-> TrimOrUndefined(p.delivery.postalCode)],
   payment |-> [method |-> p.payment.method,
                transactionId |-> TrimOrUndefined(p.payment.transactionId),
                status |-> S("pending")],
   items |-> [i \in 1..Len(p.items.a) |-> CleanItem(p.items.a[i])],
   totals |-> [subtotal |-> NumberOrZero(p.totals.subtotal),
               deliveryCharge |-> NumberOrZero(p.totals.deliveryCharge),
               total |-> ToNumber(p.totals.total)],
   status |-> S("pending"),
   orderNotes |-> TrimOrEmpty(p.orderNotes),
   adminNotes |-> Str(<<>>),
   createdAt |-> time,
   updatedAt |-> time]

\* the literal's value kept whatever it is
KeepIfFalsy(v) == v

\* if (!x) delete x, for customer.email, delivery.postalCode, payment.transactionId
DeleteIfFalsy(v) == IF Truthy(v) THEN v ELSE Absent

DeleteEmpty(c) ==
  [c EXCEPT !.customer.email = DeleteIfFalsy(@),
            !.delivery.postalCode = DeleteIfFalsy(@),
            !.payment.transactionId = DeleteIfFalsy(@)]

\* the literal also copying the client's orderNumber
CleanCopiesOrderNumber(p, time) ==
  DeleteEmpty(CleanLiteral(p, time)) @@ [orderNumber |-> p.orderNumber]

\* the literal taking status, payment.status and adminNotes from the payload
CleanKeepsClientStatus(p, time) ==
  [DeleteEmpty(CleanLiteral(p, time)) EXCEPT
     !.status = IF Truthy(p.status) THEN p.status ELSE @,
     !.payment.status = IF Truthy(p.payment.status) THEN p.payment.status ELSE @,
     !.adminNotes = IF Truthy(p.adminNotes) THEN p.adminNotes ELSE @]

CleanOrderData(p, time) == DeleteEmpty(CleanLiteral(p, time))

(***************************************************************************)
(* The Order model: document construction, schema validators, the pre-save *)
(* hook and the unique index on orderNumber.                               *)
(***************************************************************************)
OrderStatuses ==
  {S("pending"), S("confirmed"), S("processing"), S("shipped"), S("delivered"),
   S("cancelled")}

PaymentStatuses == {S("pending"), S("paid"), S("failed")}

\* new Order(data): a schema path the data does not carry is not set
NewOrder(data) == data @@ [orderNumber |-> Undefined]

\* required on a String path: a string of length > 0
RequiredString(v) == Read(v).t = "string" /\ Len(Read(v).s) > 0

\* min on a Number path
BelowMin(v, min) == ~v.nan /\ v.n < min

\* the paths whose validators fail: the keys of ValidationError.errors
SchemaErrors(doc) ==
  {path \in {"customer.firstName", "customer.lastName", "customer.phone",
             "delivery.address", "delivery.city", "payment.method",
             "payment.status", "items.productId", "items.name", "items.price",
             "items.quantity", "totals.subtotal", "totals.deliveryCharge",
             "totals.total", "status"} :
     CASE path = "customer.firstName" -> ~RequiredString(doc.customer.firstName)
       [] path = "customer.lastName" -> ~RequiredString(doc.customer.lastName)
       [] path = "customer.phone" -> ~RequiredString(doc.customer.phone)
       [] path = "delivery.address" -> ~RequiredString(doc.delivery.address)
       [] path = "delivery.city" -> ~RequiredString(doc.delivery.city)
       [] path = "payment.method" -> doc.payment.method \notin PaymentMethods
       [] path = "payment.status" -> doc.payment.status \notin PaymentStatuses
       [] path = "items.productId" ->
            \E i \in 1..Len(doc.items) : ~Truthy(doc.items[i].productId)
       [] path = "items.name" ->
            \E i \in 1..Len(doc.items) : ~RequiredString(doc.items[i].name)
       [] path = "items.price" ->
            \E i \in 1..Len(doc.items) : BelowMin(doc.items[i].price, 0)
       [] path = "items.quantity" ->
            \E i \in 1..Len(doc.items) : BelowMin(doc.items[i].quantity, 1)
       [] path = "totals.subtotal" -> BelowMin(doc.totals.subtotal, 0)
       [] path = "totals.deliveryCharge" -> BelowMin(doc.totals.deliveryCharge, 0)
       [] path = "totals.total" -> BelowMin(doc.totals.total, 0)
       [] path = "status" -> doc.status \notin OrderStatuses}

\* the calendar day of a clock value: what YY, MM and DD are formatted from
DayOf(time) == time \div TicksPerDay

\* `HM${year}${month}${day}${random}`: the day's six digits and the suffix
\* padded to three digits, one string per (day, random) pair
OrderNumber(day, random) == Str(<<"HM", day, random>>)

\* orderSchema.pre('save'): the number is generated only when none is set
PreSave(doc, time, random) ==
  [doc EXCEPT !.orderNumber =
                 IF ~Truthy(doc.orderNumber) THEN OrderNumber(DayOf(time), random)
                 ELSE @,
              !.updatedAt = time]

\* an index that admits every key
IndexAdmitsAll(stored, number) == TRUE

\* unique: true on orderNumber: the insert is refused (E11000) when a stored
\* document has the key
UniqueIndexAdmits(stored, number) ==
  \A i \in 1..Len(stored) : stored[i].orderNumber # number

(***************************************************************************)
(* Notification channels.  transporter.sendMail resolves or rejects; the   *)
(* body of sendSMS's try returns or throws (the provider request is where  *)
(* it would; the catch below it is what the model exercises).              *)
(***************************************************************************)
Null == [t |-> "null"]
Success == [success |-> TRUE]
Failure(message) == [success |-> FALSE, error |-> message]

TransportOutcomes == {"sent", "throw"}

\* a catch that reports the failed send as sent
EmailResultLosesFailure(outcome) == Success

\* the try/catch around transporter.sendMail in both dispatch functions
EmailResult(outcome) ==
  IF outcome = "sent" THEN Success ELSE Failure("mail transport error")

\* getOrderConfirmationSMS: the text around the order number and the total
GetOrderConfirmationSMS(order) ==
  <<"Herman Perfume: Your order ", order.orderNumber, " has been confirmed! Total: ",
    order.totals.total, ". We'll call you within 24hrs. Track: www.hermanperfume.com/track">>

\* the statuses that statusMessages has a key for
MessageStatuses ==
  {S("confirmed"), S("processing"), S("shipped"), S("delivered"), S("cancelled")}

\* statusMessages[newStatus]: the text around the order number
StatusMessage(order, newStatus) ==
  CASE newStatus = S("confirmed") ->
         <<"Your order ", order.orderNumber, " is confirmed and being prepared.">>
    [] newStatus = S("processing") ->
         <<"Your order ", order.orderNumber, " is being processed.">>
    [] newStatus = S("shipped") ->
         <<"Great news! Your order ", order.orderNumber,
           " has been shipped and is on the way.">>
    [] newStatus = S("delivered") ->
         <<"Your order ", order.orderNumber,
           " has been delivered. Thank you for shopping with Herman Perfume!">>
    [] newStatus = S("cancelled") ->
         <<"Your order ", order.orderNumber,
           " has been cancelled. If you have questions, please call us.">>

GenericStatusMessage == <<"Order status updated.">>

\* getOrderStatusSMS: statusMessages[newStatus] || 'Order status updated.'
GetOrderStatusSMS(order, newStatus) ==
  <<"Herman Perfume: ",
    IF newStatus \in MessageStatuses THEN StatusMessage(order, newStatus)
    ELSE GenericStatusMessage,
    " Track: www.hermanperfume.com/track">>

\* sendSMS: { success: true }, or the catch's { success: false, error }
SendSMS(outcome) ==
  IF outcome = "sent" THEN Success ELSE Failure("sms error")

(***************************************************************************)
(* PUT /api/orders/:id: the update document and its validators.            *)
(***************************************************************************)
\* validators that are run on the status only
UpdateErrorsStatusOnly(body) ==
  {path \in {"status"} : Truthy(body.status) /\ body.status \notin OrderStatuses}

\* runValidators: the enum validators of the paths the update sets
UpdateErrors(body) ==
  {path \in {"status", "payment.status"} :
     CASE path = "status" -> Truthy(body.status) /\ body.status \notin OrderStatuses
       [] path = "payment.status" ->
            Truthy(body.paymentStatus) /\ body.paymentStatus \notin PaymentStatuses}

\* an update that does not move an order out of delivered or cancelled
ApplyUpdateGuarded(doc, body, time) ==
  [doc EXCEPT !.updatedAt = time,
              !.status = IF Truthy(body.status) /\ @ \notin {S("delivered"), S("cancelled")}
                         THEN body.status ELSE @,
              !.adminNotes = IF body.adminNotes # Undefined THEN body.adminNotes ELSE @,
              !.payment.status = IF Truthy(body.paymentStatus) THEN body.paymentStatus ELSE @]

\* an update that marks the order paid when it is set to delivered
ApplyUpdateMarkingPaid(doc, body, time) ==
  [doc EXCEPT !.updatedAt = time,
              !.status = IF Truthy(body.status) THEN body.status ELSE @,
              !.adminNotes = IF body.adminNotes # Undefined THEN body.adminNotes ELSE @,
              !.payment.status = IF Truthy(body.paymentStatus) THEN body.paymentStatus
                                 ELSE IF body.status = S("delivered") THEN S("paid")
                                 ELSE @]

\* updateData applied by findByIdAndUpdate
ApplyUpdate(doc, body, time) ==
  [doc EXCEPT !.updatedAt = time,
              !.status = IF Truthy(body.status) THEN body.status ELSE @,
              !.adminNotes = IF body.adminNotes # Undefined THEN body.adminNotes ELSE @,
              !.payment.status = IF Truthy(body.paymentStatus) THEN body.paymentStatus ELSE @]

\* if (status && status !== currentOrder.status)
StatusChanged(body, currentStatus) ==
  Truthy(body.status) /\ body.status # currentStatus

(***************************************************************************)
(* State.                                                                  *)
(***************************************************************************)
VARIABLES
  orders,   \* the orders collection: the document of id i is orders[i]
  req,      \* the request each slot is serving, and where its handler stands
  now       \* the clock: Date.now() and new Date()

vars == <<orders, req, now>>

Req == 1..MaxReq
Ids == 1..MaxOrders

\* an :id that is no ObjectId ('abc'): the cast of findById rejects it
MalformedId == -1

\* the :id of a request: an ObjectId, of a stored order or of none, or not one
RequestIds == Ids \cup {MalformedId}

NoDoc == [t |-> "none"]
NoBody == [t |-> "none"]
NoResponse == [code |-> 0]

IdleRequest ==
  [kind |-> "none", pc |-> "idle", payload |-> NoBody, body |-> NoBody, id |-> 0,
   number |-> Undefined, thrown |-> "none", query |-> NoBody, found |-> <<>>,
   smsBody |-> <<>>,
   doc |-> NoDoc, currentStatus |-> Undefined, previousStatus |-> Undefined,
   notify |-> "none", results |-> [email |-> Null, sms |-> Null],
   emailAttempts |-> 0, smsAttempts |-> 0,
   transport |-> [email |-> "none", sms |-> "none"],
   committed |-> FALSE, resp |-> NoResponse]

Init ==
  /\ orders = <<>>
  /\ req = [r \in Req |-> IdleRequest]
  /\ now = 0

\* res.status(code).json(...) ends the handler
Respond(request, response) == [request EXCEPT !.pc = "done", !.resp = response]

ErrorResponse(code, message) == [code |-> code, error |-> message]

\* the catch of a handler: what was thrown, and the answer of the catch
Caught(request, cause, response) == Respond([request EXCEPT !.thrown = cause], response)

\* the 400 of a mongoose ValidationError, with its failing paths
DetailsResponse(paths) ==
  [code |-> 400, error |-> "Order validation failed", details |-> paths]

\* res.status(201).json({ success, message, orderNumber, order })
CreatedResponse(order) ==
  [code |-> 201, success |-> TRUE, orderNumber |-> order.orderNumber, order |-> order]

\* res.json(order)
OrderResponse(order) == [code |-> 200, order |-> order]

\* res.json({ success, message, results })
ResultsResponse(results) == [code |-> 200, success |-> TRUE, results |-> results]

\* a handler whose answer turns on how the dispatch went
FinalResponseFailingOnNotification(request) ==
  IF request.results.sms # Success \/ request.results.email \notin {Null, Success}
  THEN ErrorResponse(500, "notification failed")
  ELSE IF request.kind = "post" THEN CreatedResponse(request.doc)
  ELSE IF request.kind = "put" THEN OrderResponse(request.doc)
  ELSE ResultsResponse(request.results)

\* what the handler answers once the dispatch has returned (or was not made)
FinalResponse(request) ==
  IF request.kind = "post" THEN CreatedResponse(request.doc)
  ELSE IF request.kind = "put" THEN OrderResponse(request.doc)
  ELSE ResultsResponse(request.results)

\* sendOrderConfirmation / sendStatusUpdateNotification start: results are
\* {email: null, sms: null}; the email is sent only if customer.email is set
StartDispatch(request, kind) ==
  [request EXCEPT !.notify = kind,
                  !.results = [email |-> Null, sms |-> Null],
                  !.pc = IF Truthy(Read(request.doc.customer.email)) THEN "email" ELSE "sms"]

\* the email step of a dispatch returning early when the send fails
EmailStepAbortsOnFailure(request, outcome) ==
  IF outcome = "sent"
  THEN [request EXCEPT !.results.email = EmailResult(outcome),
                       !.emailAttempts = @ + 1,
                       !.transport.email = outcome,
                       !.pc = "sms"]
  ELSE Respond([request EXCEPT !.results.email = EmailResult(outcome),
                               !.emailAttempts = @ + 1,
                               !.transport.email = outcome],
               FinalResponse(request))

\* if (order.customer.email) { try { await transporter.sendMail(...) } catch ... }
\* then on to the SMS, whatever the outcome
EmailStep(request, outcome) ==
  [request EXCEPT !.results.email = EmailResult(outcome),
                  !.emailAttempts = @ + 1,
                  !.transport.email = outcome,
                  !.pc = "sms"]

\* try { results.sms = await sendSMS(...) } catch ...; return results; the
\* handler then answers
SmsStep(request, outcome) ==
  LET sent == [request EXCEPT !.results.sms = SendSMS(outcome),
                              !.smsBody = IF request.notify = "status"
                                          THEN GetOrderStatusSMS(request.doc,
                                                                 request.body.status)
                                          ELSE GetOrderConfirmationSMS(request.doc),
                              !.smsAttempts = @ + 1,
                              !.transport.sms = outcome]
  IN Respond(sent, FinalResponse(sent))

\* the checks of the handler with the return of the item price check missing
PostDecisionFallingThrough(p) ==
  IF ValidationError(p) \notin {"", ErrItemPrice} THEN "reject"
  ELSE IF CleanThrows(p) THEN "throw"
  ELSE "save"

\* where the synchronous part of POST /api/orders ends: a 400 of the request
\* validation, the catch (a TypeError of the literal), or order.save()
PostDecision(p) ==
  IF ValidationError(p) # "" THEN "reject"
  ELSE IF CleanThrows(p) THEN "throw"
  ELSE "save"

(***************************************************************************)
(* POST /api/orders                                                        *)
(***************************************************************************)
PostReceive(r, p) ==
  /\ req[r].pc = "idle"
  /\ LET started == [IdleRequest EXCEPT !.kind = "post", !.payload = p]
     IN req' = [req EXCEPT ![r] =
          CASE PostDecision(p) = "reject" ->
                 Respond(started, ErrorResponse(400, ValidationError(p)))
            [] PostDecision(p) = "throw" ->
                 Caught(started, "type", ErrorResponse(500, "Failed to place order: TypeError"))
            [] OTHER ->
                 [started EXCEPT !.pc = "save",
                                 !.doc = NewOrder(CleanOrderData(p, now))]]
  /\ UNCHANGED <<orders, now>>

\* the handler sending the confirmation before the save has answered: the
\* dispatch starts whether or not the order was stored
PostSaveNotifyingFirst(r) ==
  /\ req[r].pc = "save"
  /\ \E random \in 0..(SuffixRange - 1), dbUp \in BOOLEAN :
       LET doc == PreSave(req[r].doc, now, random)
           stored == SchemaErrors(req[r].doc) = {} /\ dbUp
                     /\ UniqueIndexAdmits(orders, doc.orderNumber)
       IN /\ stored => Len(orders) < MaxOrders
          /\ orders' = IF stored THEN Append(orders, doc) ELSE orders
          /\ req' = [req EXCEPT ![r] =
                       StartDispatch([@ EXCEPT !.doc = doc, !.id = Len(orders) + 1,
                                                !.committed = stored,
                                                !.thrown = IF stored THEN "none"
                                                           ELSE "storage"],
                                     "confirmation")]
  /\ UNCHANGED now

\* await order.save(): schema validation, the pre-save hook, the insert
PostSave(r) ==
  /\ req[r].pc = "save"
  /\ \E random \in 0..(SuffixRange - 1), dbUp \in BOOLEAN :
       LET doc == PreSave(req[r].doc, now, random)
       IN IF SchemaErrors(req[r].doc) # {}
          THEN /\ req' = [req EXCEPT ![r] =
                            Caught(@, "validation", DetailsResponse(SchemaErrors(req[r].doc)))]
               /\ UNCHANGED orders
          ELSE IF ~dbUp
          THEN /\ req' = [req EXCEPT ![r] =
                            Caught([@ EXCEPT !.doc = doc], "storage",
                                   ErrorResponse(500, "Failed to place order: storage"))]
               /\ UNCHANGED orders
          ELSE IF ~UniqueIndexAdmits(orders, doc.orderNumber)
          THEN /\ req' = [req EXCEPT ![r] =
                            Caught([@ EXCEPT !.doc = doc], "duplicate",
                                   ErrorResponse(500, "Failed to place order: E11000"))]
               /\ UNCHANGED orders
          ELSE /\ Len(orders) < MaxOrders
               /\ orders' = Append(orders, doc)
               /\ req' = [req EXCEPT ![r] =
                            StartDispatch([@ EXCEPT !.doc = doc, !.id = Len(orders) + 1,
                                                     !.committed = TRUE],
                                          "confirmation")]
  /\ UNCHANGED now

(***************************************************************************)
(* The dispatch steps, shared by the confirmation and the status update.   *)
(***************************************************************************)
DispatchEmail(r) ==
  /\ req[r].pc = "email"
  /\ \E outcome \in TransportOutcomes : req' = [req EXCEPT ![r] = EmailStep(@, outcome)]
  /\ UNCHANGED <<orders, now>>

DispatchSMS(r) ==
  /\ req[r].pc = "sms"
  /\ \E outcome \in TransportOutcomes : req' = [req EXCEPT ![r] = SmsStep(@, outcome)]
  /\ UNCHANGED <<orders, now>>

(***************************************************************************)
(* PUT /api/orders/:id                                                     *)
(***************************************************************************)
\* await Order.findById(id)
PutFind(r, id, body) ==
  /\ req[r].pc = "idle"
  /\ LET started == [IdleRequest EXCEPT !.kind = "put", !.id = id, !.body = body]
     IN \E dbUp \in BOOLEAN :
          req' = [req EXCEPT ![r] =
            IF id = MalformedId
            THEN Caught(started, "cast", ErrorResponse(400, "Cast to ObjectId failed"))
            ELSE IF ~dbUp THEN Caught(started, "storage", ErrorResponse(400, "storage"))
            ELSE IF id > Len(orders) THEN Respond(started, ErrorResponse(404, "Order not found"))
            ELSE [started EXCEPT !.pc = "update", !.currentStatus = orders[id].status]]
  /\ UNCHANGED <<orders, now>>

\* an update that saves the order it read: the status that findById saw is
\* written back when the request supplies none
PutUpdateSavingReadOrder(r) ==
  /\ req[r].pc = "update"
  /\ LET id == req[r].id
         body == req[r].body
         merged == ApplyUpdate(orders[id], body, now)
         updated == [merged EXCEPT !.status = IF Truthy(body.status) THEN body.status
                                              ELSE req[r].currentStatus]
         applied == [req[r] EXCEPT !.doc = updated, !.committed = TRUE,
                                   !.previousStatus = orders[id].status]
     IN \E dbUp \in BOOLEAN :
          IF ~dbUp
          THEN /\ req' = [req EXCEPT ![r] =
                            Caught(@, "storage", ErrorResponse(400, "storage"))]
               /\ UNCHANGED orders
          ELSE IF UpdateErrors(body) # {}
          THEN /\ req' = [req EXCEPT ![r] =
                            Caught(@, "validation", ErrorResponse(400, "Validation failed"))]
               /\ UNCHANGED orders
          ELSE /\ orders' = [orders EXCEPT ![id] = updated]
               /\ req' = [req EXCEPT ![r] =
                            IF StatusChanged(body, req[r].currentStatus)
                            THEN StartDispatch(applied, "status")
                            ELSE Respond(applied, FinalResponse(applied))]
  /\ UNCHANGED now

\* await Order.findByIdAndUpdate(id, updateData, { new: true, runValidators: true })
PutUpdate(r) ==
  /\ req[r].pc = "update"
  /\ LET id == req[r].id
         body == req[r].body
         updated == ApplyUpdate(orders[id], body, now)
         applied == [req[r] EXCEPT !.doc = updated, !.committed = TRUE,
                                   !.previousStatus = orders[id].status]
     IN \E dbUp \in BOOLEAN :
          IF ~dbUp
          THEN /\ req' = [req EXCEPT ![r] =
                            Caught(@, "storage", ErrorResponse(400, "storage"))]
               /\ UNCHANGED orders
          ELSE IF UpdateErrors(body) # {}
          THEN /\ req' = [req EXCEPT ![r] =
                            Caught(@, "validation", ErrorResponse(400, "Validation failed"))]
               /\ UNCHANGED orders
          ELSE /\ orders' = [orders EXCEPT ![id] = updated]
               /\ req' = [req EXCEPT ![r] =
                            IF StatusChanged(body, req[r].currentStatus)
                            THEN StartDispatch(applied, "status")
                            ELSE Respond(applied, FinalResponse(applied))]
  /\ UNCHANGED now

(***************************************************************************)
(* POST /api/orders/:id/send-confirmation and GET /api/orders/:id          *)
(***************************************************************************)
ResendFind(r, id) ==
  /\ req[r].pc = "idle"
  /\ LET started == [IdleRequest EXCEPT !.kind = "resend", !.id = id]
     IN \E dbUp \in BOOLEAN :
          req' = [req EXCEPT ![r] =
            IF id = MalformedId \/ ~dbUp
            THEN Caught(started, IF id = MalformedId THEN "cast" ELSE "storage",
                        ErrorResponse(500, "Failed to send confirmation"))
            ELSE IF id > Len(orders) THEN Respond(started, ErrorResponse(404, "Order not found"))
            ELSE StartDispatch([started EXCEPT !.doc = orders[id]], "confirmation")]
  /\ UNCHANGED <<orders, now>>

GetOrder(r, id) ==
  /\ req[r].pc = "idle"
  /\ LET started == [IdleRequest EXCEPT !.kind = "get", !.id = id]
     IN \E dbUp \in BOOLEAN :
          req' = [req EXCEPT ![r] =
            IF id = MalformedId \/ ~dbUp
            THEN Caught(started, IF id = MalformedId THEN "cast" ELSE "storage",
                        ErrorResponse(500, "Failed to fetch order"))
            ELSE IF id > Len(orders) THEN Respond(started, ErrorResponse(404, "Order not found"))
            ELSE Respond(started, OrderResponse(orders[id]))]
  /\ UNCHANGED <<orders, now>>

\* Order.findOne({ orderNumber }): the stored orders that have the number
WithNumber(stored, number) == {i \in 1..Len(stored) : stored[i].orderNumber = number}

\* GET /api/orders/number/:orderNumber
GetOrderByNumber(r, number) ==
  /\ req[r].pc = "idle"
  /\ LET started == [IdleRequest EXCEPT !.kind = "number", !.number = number]
         found == WithNumber(orders, number)
     IN \E dbUp \in BOOLEAN :
          req' = [req EXCEPT ![r] =
            IF ~dbUp
            THEN Caught(started, "storage", ErrorResponse(500, "Failed to fetch order"))
            ELSE IF found = {} THEN Respond(started, ErrorResponse(404, "Order not found"))
            ELSE Respond([started EXCEPT !.id = CHOOSE i \in found : TRUE],
                         OrderResponse(orders[CHOOSE i \in found : TRUE]))]
  /\ UNCHANGED <<orders, now>>

(***************************************************************************)
(* GET /api/orders: the filter, the sorted and paged find, the count.       *)
(***************************************************************************)
\* const { status, page = 1, limit = 20 } = req.query
DefaultPage == 1
DefaultLimit == 20

PageOf(query) == IF query.page = Undefined THEN DefaultPage ELSE query.page.n
LimitOf(query) == IF query.limit = Undefined THEN DefaultLimit ELSE query.limit.n

\* if (status && status !== 'all') filter.status = status
Matches(doc, status) == ~Truthy(status) \/ status = S("all") \/ doc.status = status

Matching(stored, status) == {i \in 1..Len(stored) : Matches(stored[i], status)}

\* .sort({ createdAt: -1 }): the orderings of the matching orders by
\* createdAt, newest first; orders of one createdAt come in any order
NewestFirst(stored, ids) ==
  {sorted \in [1..Cardinality(ids) -> ids] :
     /\ \A i, j \in 1..Cardinality(ids) : i # j => sorted[i] # sorted[j]
     /\ \A i, j \in 1..Cardinality(ids) :
          i < j => stored[sorted[i]].createdAt >= stored[sorted[j]].createdAt}

\* .limit(limit * 1).skip((page - 1) * limit)
SkipLimit(sorted, skip, limit) ==
  IF skip >= Len(sorted) THEN <<>>
  ELSE SubSeq(sorted, skip + 1, IF skip + limit < Len(sorted) THEN skip + limit
                                 ELSE Len(sorted))

\* what Order.find(filter).sort(...).limit(...).skip(...) can resolve with
FindOrders(stored, query) ==
  {[k \in 1..Len(ids) |-> stored[ids[k]]] :
     ids \in {SkipLimit(sorted, (PageOf(query) - 1) * LimitOf(query), LimitOf(query)) :
               sorted \in NewestFirst(stored, Matching(stored, query.status))}}

\* Math.ceil(totalOrders / limit)
Ceil(a, b) == (a + b - 1) \div b

\* res.json({ orders, totalPages, currentPage, totalOrders })
ListResponse(found, totalOrders, query) ==
  [code |-> 200, orders |-> found, totalPages |-> Ceil(totalOrders, LimitOf(query)),
   currentPage |-> PageOf(query), totalOrders |-> totalOrders]

\* await Order.find(filter).sort(...).limit(...).skip(...)
ListFind(r, query) ==
  /\ req[r].pc = "idle"
  /\ LET started == [IdleRequest EXCEPT !.kind = "list", !.query = query]
     IN \E dbUp \in BOOLEAN :
          IF ~dbUp
          THEN req' = [req EXCEPT ![r] =
                         Caught(started, "storage", ErrorResponse(500, "Failed to fetch orders"))]
          ELSE \E found \in FindOrders(orders, query) :
                 req' = [req EXCEPT ![r] = [started EXCEPT !.pc = "count", !.found = found]]
  /\ UNCHANGED <<orders, now>>

\* await Order.countDocuments(filter), and the response
ListCount(r) ==
  /\ req[r].pc = "count"
  /\ \E dbUp \in BOOLEAN :
       req' = [req EXCEPT ![r] =
         IF ~dbUp THEN Caught(@, "storage", ErrorResponse(500, "Failed to fetch orders"))
         ELSE Respond(@, ListResponse(req[r].found,
                                      Cardinality(Matching(orders, req[r].query.status)),
                                      req[r].query))]
  /\ UNCHANGED <<orders, now>>

\* the response is out: the slot takes the next request
Finish(r) ==
  /\ req[r].pc = "done"
  /\ req' = [req EXCEPT ![r] = IdleRequest]
  /\ UNCHANGED <<orders, now>>

Tick ==
  /\ now < MaxTime
  /\ now' = now + 1
  /\ UNCHANGED <<orders, req>>

(***************************************************************************)
(* Inputs.                                                                 *)
(***************************************************************************)
Item(price, quantity) ==
  [t |-> "object", productId |-> S("p1"), name |-> Str(<<"a">>), price |-> price,
   quantity |-> quantity, category |-> Undefined]

BasePayload ==
  [customer |-> [t |-> "object", firstName |-> Str(<<"a">>), lastName |-> Str(<<"a">>),
                 phone |-> Str(<<"a">>), email |-> Str(<<"a">>)],
   delivery |-> [t |-> "object", address |-> Str(<<"a">>), city |-> Str(<<"a">>),
                 postalCode |-> Undefined],
   payment |-> [t |-> "object", method |-> S("cod"), transactionId |-> Undefined,
                status |-> Undefined],
   items |-> Arr(<<Item(Num(50), Num(2))>>),
   totals |-> [t |-> "object", subtotal |-> Num(100), deliveryCharge |-> Num(30),
               total |-> Num(130)],
   orderNotes |-> Undefined,
   orderNumber |-> Undefined,
   status |-> Undefined,
   adminNotes |-> Undefined]

\* a number of the right format, of a day the clock never reaches
ClientOrderNumber == OrderNumber(MaxTime + 1, 0)

\* a payload that sets the fields the server is to set: orderNumber, status,
\* payment.status and adminNotes
WithClientFields(p) ==
  [p EXCEPT !.orderNumber = ClientOrderNumber, !.status = S("shipped"),
            !.payment.status = S("paid"), !.adminNotes = S("x")]

\* the payloads of the specifications that are not about validation: each
\* carries an orderNumber, a status, a payment.status and adminNotes of the
\* client's
CorePayloads ==
  {WithClientFields(BasePayload),
   WithClientFields([BasePayload EXCEPT !.customer.email = Undefined]),
   WithClientFields([BasePayload EXCEPT !.totals.total = Num(0)])}

PutBody(status, adminNotes, paymentStatus) ==
  [status |-> status, adminNotes |-> adminNotes, paymentStatus |-> paymentStatus]

\* the order numbers a client asks for: the ones the server generates, and
\* one it never does
RequestNumbers ==
  {OrderNumber(day, random) : day \in 0..DayOf(MaxTime), random \in 0..(SuffixRange - 1)}
    \cup {ClientOrderNumber}

CoreBodies ==
  {PutBody(S("shipped"), Undefined, Undefined),
   PutBody(S("pending"), Undefined, Undefined),
   PutBody(S("bogus"), Undefined, Undefined),
   PutBody(Undefined, S("x"), Undefined)}

\* every handler, one request at a time
Next ==
  \/ \E p \in CorePayloads : PostReceive(1, p)
  \/ PostSave(1)
  \/ DispatchEmail(1)
  \/ DispatchSMS(1)
  \/ \E id \in RequestIds, body \in CoreBodies : PutFind(1, id, body)
  \/ PutUpdate(1)
  \/ \E id \in RequestIds : ResendFind(1, id)
  \/ \E id \in RequestIds : GetOrder(1, id)
  \/ \E number \in RequestNumbers : GetOrderByNumber(1, number)
  \/ Finish(1)

Spec == Init /\ [][Next]_vars

\* order creations in flight together
CreateNext ==
  \/ \E r \in Req, p \in CorePayloads : PostReceive(r, p)
  \/ \E r \in Req : PostSave(r)
  \/ \E r \in Req : DispatchEmail(r)
  \/ \E r \in Req : DispatchSMS(r)
  \/ \E r \in Req : Finish(r)
  \/ Tick

SpecCreate == Init /\ [][CreateNext]_vars

\* updates of the stored orders in flight together
UpdateNext ==
  \/ \E r \in Req : PostReceive(r, BasePayload)
  \/ \E r \in Req : PostSave(r)
  \/ \E r \in Req : DispatchEmail(r)
  \/ \E r \in Req : DispatchSMS(r)
  \/ \E r \in Req, id \in Ids, body \in CoreBodies : PutFind(r, id, body)
  \/ \E r \in Req : PutUpdate(r)
  \/ \E r \in Req : Finish(r)

SpecUpdate == Init /\ [][UpdateNext]_vars

(***************************************************************************)
(* The payloads of the validation specification: the base payload with one *)
(* section changed, or two sections changed to one of their key variants.  *)
(***************************************************************************)
Blank == Str(<<" ">>)
Padded == Str(<<" ", "a", " ">>)

CustomerVariants ==
  {Undefined,
   [BasePayload.customer EXCEPT !.firstName = Undefined],
   [BasePayload.customer EXCEPT !.firstName = Str(<<>>)],
   [BasePayload.customer EXCEPT !.firstName = Blank],
   [BasePayload.customer EXCEPT !.firstName = Padded],
   [BasePayload.customer EXCEPT !.firstName = Num(7)],
   [BasePayload.customer EXCEPT !.lastName = Undefined],
   [BasePayload.customer EXCEPT !.phone = Blank],
   [BasePayload.customer EXCEPT !.email = Undefined],
   [BasePayload.customer EXCEPT !.email = Blank],
   [BasePayload.customer EXCEPT !.email = Padded]}

DeliveryVariants ==
  {Undefined,
   [BasePayload.delivery EXCEPT !.address = Undefined],
   [BasePayload.delivery EXCEPT !.city = Blank],
   [BasePayload.delivery EXCEPT !.postalCode = Blank],
   [BasePayload.delivery EXCEPT !.postalCode = Padded]}

PaymentVariants ==
  {Undefined,
   [BasePayload.payment EXCEPT !.method = Undefined],
   [BasePayload.payment EXCEPT !.method = S("card")],
   [BasePayload.payment EXCEPT !.method = S("bkash")],
   [BasePayload.payment EXCEPT !.method = S("bkash"), !.transactionId = Str(<<>>)],
   [BasePayload.payment EXCEPT !.method = S("bkash"), !.transactionId = Blank],
   [BasePayload.payment EXCEPT !.method = S("bkash"), !.transactionId = Padded],
   [BasePayload.payment EXCEPT !.transactionId = Blank]}

ItemsVariants ==
  {Undefined, Arr(<<>>), Str(<<"a">>),
   Arr(<<Item(Num(0), Num(2))>>),
   Arr(<<Item(Num(-1), Num(2))>>),
   Arr(<<Item(Str(<<"a">>), Num(2))>>),
   Arr(<<Item(Num(50), Num(0))>>),
   Arr(<<Item(Num(50), Num(-1))>>),
   Arr(<<[Item(Num(50), Num(2)) EXCEPT !.name = Blank]>>),
   Arr(<<Item(Num(50), Num(2)), Item(Num(30), Num(1))>>),
   Arr(<<Item(Num(50), Num(2)), Item(Num(30), Num(-1))>>)}

TotalsVariants ==
  {Undefined,
   [BasePayload.totals EXCEPT !.total = Num(0)],
   [BasePayload.totals EXCEPT !.total = Num(-5)],
   [BasePayload.totals EXCEPT !.total = Undefined],
   [BasePayload.totals EXCEPT !.subtotal = Num(-1)],
   [BasePayload.totals EXCEPT !.subtotal = Undefined],
   [BasePayload.totals EXCEPT !.subtotal = Num(0)],
   [BasePayload.totals EXCEPT !.deliveryCharge = Num(-1)],
   [BasePayload.totals EXCEPT !.deliveryCharge = Blank]}

WithSections(c, d, pm, it, t) ==
  [BasePayload EXCEPT !.customer = c, !.delivery = d, !.payment = pm, !.items = it,
                      !.totals = t]

OneSectionChanged ==
  {WithSections(c, BasePayload.delivery, BasePayload.payment, BasePayload.items,
                BasePayload.totals) : c \in CustomerVariants}
  \cup {WithSections(BasePayload.customer, d, BasePayload.payment, BasePayload.items,
                     BasePayload.totals) : d \in DeliveryVariants}
  \cup {WithSections(BasePayload.customer, BasePayload.delivery, pm, BasePayload.items,
                     BasePayload.totals) : pm \in PaymentVariants}
  \cup {WithSections(BasePayload.customer, BasePayload.delivery, BasePayload.payment, it,
                     BasePayload.totals) : it \in ItemsVariants}
  \cup {WithSections(BasePayload.customer, BasePayload.delivery, BasePayload.payment,
                     BasePayload.items, t) : t \in TotalsVariants}

Changed(p) ==
  {k \in {"customer", "delivery", "payment", "items", "totals"} : p[k] # BasePayload[k]}

TwoSectionsChanged ==
  {p \in {WithSections(c, d, pm, it, t) :
            c \in {BasePayload.customer, Undefined,
                   [BasePayload.customer EXCEPT !.phone = Blank]},
            d \in {BasePayload.delivery, Undefined,
                   [BasePayload.delivery EXCEPT !.city = Blank]},
            pm \in {BasePayload.payment, Undefined,
                    [BasePayload.payment EXCEPT !.method = S("bkash")]},
            it \in {BasePayload.items, Arr(<<>>), Arr(<<Item(Num(0), Num(2))>>)},
            t \in {BasePayload.totals, Undefined,
                   [BasePayload.totals EXCEPT !.subtotal = Num(-1)]}} :
     Cardinality(Changed(p)) = 2}

AllPayloads ==
  {BasePayload,
   [BasePayload EXCEPT !.orderNumber = ClientOrderNumber],
   [BasePayload EXCEPT !.orderNotes = Padded],
   [BasePayload EXCEPT !.orderNotes = Num(7)]}
  \cup OneSectionChanged \cup TwoSectionsChanged

\* order creation over every payload, one request at a time
ValidationNext ==
  \/ \E p \in AllPayloads : PostReceive(1, p)
  \/ PostSave(1)
  \/ DispatchEmail(1)
  \/ DispatchSMS(1)
  \/ Finish(1)

SpecValidation == Init /\ [][ValidationNext]_vars

\* the queries of the listing: no parameter, a status, a page and a limit
ListQuery(status, page, limit) == [status |-> status, page |-> page, limit |-> limit]

ListQueries ==
  {ListQuery(status, page, limit) :
     status \in {Undefined, S("all"), S("pending"), S("shipped")},
     page \in {Undefined, Num(1), Num(2)},
     limit \in {Undefined, Num(1), Num(2)}}

\* orders created at different times, shipped, and listed, one request at a
\* time
ListNext ==
  \/ PostReceive(1, [BasePayload EXCEPT !.customer.email = Undefined])
  \/ PostSave(1)
  \/ DispatchSMS(1)
  \/ \E id \in Ids : PutFind(1, id, PutBody(S("shipped"), Undefined, Undefined))
  \/ PutUpdate(1)
  \/ \E query \in ListQueries : ListFind(1, query)
  \/ ListCount(1)
  \/ Finish(1)
  \/ Tick

SpecList == Init /\ [][ListNext]_vars

\* order creation as the event loop runs it: the call of the database and
\* the SMS step, which awaits no collaborator in this build, complete; the
\* promise of transporter.sendMail settles when the mail collaborator
\* completes its call, which no timer of the code stands in for
LiveNext ==
  \/ \E p \in CorePayloads : PostReceive(1, p)
  \/ PostSave(1)
  \/ DispatchEmail(1)
  \/ DispatchSMS(1)
  \/ Finish(1)

SpecLive ==
  /\ Init /\ [][LiveNext]_vars
  /\ WF_vars(PostSave(1)) /\ WF_vars(DispatchSMS(1)) /\ WF_vars(Finish(1))

(***************************************************************************)
(* The update bodies of the administration specification: each field       *)
(* alone, valid, outside its enumeration and empty, and fields together.   *)
(***************************************************************************)
AdminBodies ==
  {PutBody(S("delivered"), Undefined, Undefined),
   PutBody(Undefined, S("x"), Undefined),
   PutBody(Undefined, Str(<<>>), Undefined),
   PutBody(Undefined, Undefined, S("paid")),
   PutBody(S("bogus"), Undefined, Undefined),
   PutBody(Undefined, Undefined, S("bogus")),
   PutBody(Str(<<>>), Undefined, Undefined),
   PutBody(S("delivered"), Undefined, S("bogus")),
   PutBody(S("delivered"), S("x"), S("paid"))}

\* orders created and then updated while the clock runs, one request at a
\* time
AdminNext ==
  \/ PostReceive(1, [BasePayload EXCEPT !.customer.email = Undefined])
  \/ PostSave(1)
  \/ DispatchSMS(1)
  \/ \E id \in Ids, body \in AdminBodies : PutFind(1, id, body)
  \/ PutUpdate(1)
  \/ Finish(1)
  \/ Tick

SpecAdmin == Init /\ [][AdminNext]_vars

\* the updates to each of the six statuses
StatusBodies == {PutBody(status, Undefined, Undefined) : status \in OrderStatuses}

\* orders created and then moved between the statuses, one request at a time
StatusNext ==
  \/ PostReceive(1, [BasePayload EXCEPT !.customer.email = Undefined])
  \/ PostSave(1)
  \/ DispatchSMS(1)
  \/ \E id \in Ids, body \in StatusBodies : PutFind(1, id, body)
  \/ PutUpdate(1)
  \/ Finish(1)

SpecStatus == Init /\ [][StatusNext]_vars

(***************************************************************************)
(* The payloads of the ordering specification: every section either valid  *)
(* or failing one of the checks that read it, in every combination.        *)
(***************************************************************************)
OrderingPayloads ==
  {WithSections(c, d, pm, it, t) :
     c \in {BasePayload.customer, Undefined,
            [BasePayload.customer EXCEPT !.firstName = Undefined]},
     d \in {BasePayload.delivery, Undefined,
            [BasePayload.delivery EXCEPT !.address = Undefined]},
     pm \in {BasePayload.payment, Undefined,
             [BasePayload.payment EXCEPT !.method = S("card")],
             [BasePayload.payment EXCEPT !.method = S("bkash")]},
     it \in {BasePayload.items, Arr(<<>>), Str(<<"a">>),
             Arr(<<Item(Num(0), Num(2))>>),
             Arr(<<Item(Num(-1), Num(2))>>),
             Arr(<<Item(Num(50), Num(-1))>>)},
     t \in {BasePayload.totals, Undefined,
            [BasePayload.totals EXCEPT !.total = Num(0)]}}

\* order creation over the ordering payloads, one request at a time
OrderingNext ==
  \/ \E p \in OrderingPayloads : PostReceive(1, p)
  \/ PostSave(1)
  \/ DispatchEmail(1)
  \/ DispatchSMS(1)
  \/ Finish(1)

SpecOrdering == Init /\ [][OrderingNext]_vars

(***************************************************************************)
(* Properties.                                                             *)
(***************************************************************************)
Done(r) == req[r].pc = "done"

\* the dispatch of request r was started
Dispatched(r) == req[r].notify # "none"

HasEmail(r) == Truthy(Read(req[r].doc.customer.email))

\* the calendar day an order number was generated on
NumberDay(number) == number.s[2]

\* C1: no two persisted orders share an orderNumber, however the order
\* creations interleave and whichever suffixes they draw.
C1_UniqueOrderNumbers ==
  \A i, j \in 1..Len(orders) : i # j => orders[i].orderNumber # orders[j].orderNumber

\* two creations in flight together have both persisted an order on one day
C1_Witness ==
  \E r1, r2 \in Req :
    /\ r1 # r2
    /\ req[r1].kind = "post" /\ req[r2].kind = "post"
    /\ req[r1].committed /\ req[r2].committed
    /\ NumberDay(req[r1].doc.orderNumber) = NumberDay(req[r2].doc.orderNumber)

\* C2: a collision of the generated number with a stored one is retried
\* with a new number and never answered with a 500 while a suffix of that
\* day is unused.
C2_CollisionNeverSurfaced ==
  \A r \in Req :
    ~ /\ req[r].kind = "post" /\ Done(r)
      /\ req[r].resp.code = 500
      /\ req[r].resp.error = "Failed to place order: E11000"
      /\ \E random \in 0..(SuffixRange - 1) :
           UniqueIndexAdmits(orders,
                             OrderNumber(NumberDay(req[r].doc.orderNumber), random))

\* C3: a request that persisted its order or its update answers 201, or 200,
\* with the stored order, whatever the channels did; the order stays stored.
C3_PersistedOrderReturned ==
  \A r \in Req :
    (Done(r) /\ req[r].committed) =>
      /\ req[r].id \in 1..Len(orders)
      /\ req[r].resp.code = IF req[r].kind = "post" THEN 201 ELSE 200
      /\ req[r].resp.order = orders[req[r].id]

\* an update was answered after its status email failed
C3_Witness ==
  \E r \in Req :
    /\ Done(r) /\ req[r].committed /\ req[r].kind = "put"
    /\ req[r].transport.email = "throw"
    /\ req[r].resp.code = 200

\* C4: a dispatch resolves with both outcomes, each channel recorded by its
\* own transport's outcome: a failed send as {success: false, error}, a send
\* that went through as {success: true}, an email not sent as null.
ChannelRecorded(outcome, result) ==
  CASE outcome = "none" -> result = Null
    [] outcome = "sent" -> result = Success
    [] outcome = "throw" -> /\ DOMAIN result = {"success", "error"}
                            /\ result.success = FALSE

C4_DispatchResolvesWithOutcomes ==
  \A r \in Req :
    /\ ChannelRecorded(req[r].transport.email, req[r].results.email)
    /\ ChannelRecorded(req[r].transport.sms, req[r].results.sms)
    /\ (Done(r) /\ Dispatched(r)) => req[r].transport.sms # "none"

\* the email failed and the SMS went through
C4_Witness ==
  \E r \in Req :
    /\ Done(r) /\ Dispatched(r)
    /\ req[r].results = [email |-> Failure("mail transport error"), sms |-> Success]

\* C5: a dispatch makes one SMS attempt, and one email attempt if the order
\* has an email and none (result null) if it has not; no attempt is repeated
\* and a failed email does not stop the SMS.
C5_OneAttemptPerChannel ==
  \A r \in Req :
    /\ req[r].emailAttempts <= 1 /\ req[r].smsAttempts <= 1
    /\ (Done(r) /\ Dispatched(r)) =>
         /\ req[r].smsAttempts = 1
         /\ IF HasEmail(r) THEN req[r].emailAttempts = 1
            ELSE req[r].emailAttempts = 0 /\ req[r].results.email = Null

\* the SMS was attempted after the email attempt had failed
C5_Witness ==
  \E r \in Req :
    /\ Done(r) /\ Dispatched(r) /\ HasEmail(r)
    /\ req[r].transport.email = "throw"
    /\ req[r].emailAttempts = 1 /\ req[r].smsAttempts = 1

\* C6: an update that went through dispatches a status notification if and
\* only if it supplies a status that differs from the status the order had
\* immediately before the update was applied.
C6_NotifiedIffStatusChanged ==
  \A r \in Req :
    (req[r].kind = "put" /\ req[r].committed) =>
      (Dispatched(r) <=>
         (req[r].body.status # Undefined /\ req[r].body.status # req[r].previousStatus))

\* the numbers the pre-save hook can generate at a clock value
GeneratedNumbers(time) == {OrderNumber(DayOf(time), random) : random \in 0..(SuffixRange - 1)}

\* C7: an order gets its orderNumber when it is first stored, generated by
\* the server and not taken from the payload, and no later step changes or
\* clears it.
C7_OrderNumberAssignedOnce ==
  [][/\ Len(orders') >= Len(orders)
     /\ \A i \in 1..Len(orders) : orders'[i].orderNumber = orders[i].orderNumber
     /\ \A i \in (Len(orders) + 1)..Len(orders') :
          orders'[i].orderNumber \in GeneratedNumbers(now)]_vars

\* an order created from a payload carrying an orderNumber was updated to
\* shipped and kept the generated number
C7_Witness ==
  \E r \in Req :
    /\ req[r].kind = "put" /\ Done(r) /\ req[r].committed
    /\ ClientOrderNumber \in {p.orderNumber : p \in CorePayloads}
    /\ orders[req[r].id].status = S("shipped")
    /\ orders[req[r].id].orderNumber # ClientOrderNumber
    /\ orders[req[r].id].orderNumber \in GeneratedNumbers(orders[req[r].id].createdAt)

\* the payload fails the request validation or the validators of the schema
FailsValidation(p) ==
  \/ ValidationError(p) # ""
  \/ /\ ~CleanThrows(p)
     /\ SchemaErrors(NewOrder(CleanOrderData(p, 0))) # {}

\* C8: a POST whose payload fails validation is answered 400 without any
\* write and without any notification: no step of it changes the stored
\* orders or attempts a channel.
C8_InvalidPayloadRejectedBeforeWrite ==
  [][\A r \in Req :
       (req'[r].kind = "post" /\ FailsValidation(req'[r].payload)) =>
         /\ orders' = orders
         /\ ~req'[r].committed
         /\ req'[r].notify = "none"
         /\ req'[r].emailAttempts = 0 /\ req'[r].smsAttempts = 0
         /\ req'[r].pc = "done" => req'[r].resp.code = 400]_vars

\* a payload without a valid total was answered 400 while an order is stored
C8_Witness ==
  \E r \in Req :
    /\ req[r].kind = "post" /\ Done(r)
    /\ req[r].resp.code = 400 /\ req[r].resp.error = ErrTotal
    /\ Len(orders) = 1

\* C9: every bound on prices, quantities and totals is enforced by the
\* request validation: a document handed to order.save() has price > 0 and
\* quantity > 0 in each item, subtotal >= 0, deliveryCharge >= 0, total > 0.
C9_BoundsCheckedBeforeSave ==
  \A r \in Req :
    req[r].pc = "save" =>
      /\ \A i \in 1..Len(req[r].doc.items) :
           /\ req[r].doc.items[i].price.n > 0
           /\ req[r].doc.items[i].quantity.n > 0
      /\ req[r].doc.totals.subtotal.n >= 0
      /\ req[r].doc.totals.deliveryCharge.n >= 0
      /\ req[r].doc.totals.total.n > 0

\* C10: every stored order paid by bkash carries a transactionId that is a
\* non-empty string.
C10_BkashHasTransactionId ==
  \A i \in 1..Len(orders) :
    orders[i].payment.method = S("bkash") =>
      RequiredString(orders[i].payment.transactionId)

\* the sections of a payload that are not there
Sections == {"customer", "delivery", "payment", "items", "totals"}

MissingSections(p) == {k \in Sections : p[k] = Undefined}

\* C11: a payload missing one section is answered 400 with a message that
\* identifies the section: no payload missing another section gets the same
\* message.
C11_MissingSectionIdentified ==
  \A r \in Req :
    (req[r].kind = "post" /\ Done(r) /\ Cardinality(MissingSections(req[r].payload)) = 1) =>
      /\ req[r].resp.code = 400
      /\ \A q \in AllPayloads :
           (Cardinality(MissingSections(q)) = 1
              /\ MissingSections(q) # MissingSections(req[r].payload)) =>
             ValidationError(q) # req[r].resp.error

\* the messages of the checks of a step, by the step's place in the order
StepMessages(k) ==
  CASE k = 1 -> {ErrMissing}
    [] k = 2 -> {ErrCustomer}
    [] k = 3 -> {ErrDelivery}
    [] k = 4 -> {ErrMethod, ErrTransaction}
    [] k = 5 -> {ErrNoItems, ErrItemFields, ErrItemPrice, ErrItemQuantity}
    [] k = 6 -> {ErrTotal}

\* an item fails one of the item checks
ItemInvalid(item) ==
  \/ ~Truthy(item.productId) \/ ~Truthy(item.name)
  \/ ~Truthy(item.price) \/ ~Truthy(item.quantity)
  \/ ~IsNumber(item.price) \/ LeqZero(item.price)
  \/ ~IsNumber(item.quantity) \/ LeqZero(item.quantity)

\* steps 2 to 5, each read off the section it checks when the section is there
FieldStepViolated(p, k) ==
  CASE k = 2 -> /\ Truthy(p.customer)
                /\ (~Truthy(p.customer.firstName) \/ ~Truthy(p.customer.lastName)
                      \/ ~Truthy(p.customer.phone))
    [] k = 3 -> /\ Truthy(p.delivery)
                /\ (~Truthy(p.delivery.address) \/ ~Truthy(p.delivery.city))
    [] k = 4 -> /\ Truthy(p.payment)
                /\ (p.payment.method \notin PaymentMethods
                      \/ (p.payment.method = S("bkash")
                           /\ ~Truthy(p.payment.transactionId)))
    [] k = 5 -> /\ p.items.t = "array"
                /\ \E i \in 1..Len(p.items.a) : ItemInvalid(p.items.a[i])

\* the order as the specification states it: every section, the totals and
\* the items being a non-empty array included, is looked for in step 1
StatedStepViolated(p, k) ==
  CASE k = 1 -> \/ MissingSections(p) # {}
                \/ p.items.t # "array" \/ Len(p.items.a) = 0
    [] k = 6 -> /\ Truthy(p.totals)
                /\ (~IsNumber(p.totals.total) \/ LeqZero(p.totals.total))
    [] OTHER -> FieldStepViolated(p, k)

\* the order of the code: step 1 looks for customer, delivery, payment and
\* items of a length other than 0; that the items are an array is part of
\* step 5 and that the totals are there is part of step 6
CodeStepViolated(p, k) ==
  CASE k = 1 -> \/ MissingSections(p) \ {"totals"} # {}
                \/ LengthOf(p.items) = 0
    [] k = 5 -> \/ (Truthy(p.items) /\ p.items.t # "array")
                \/ FieldStepViolated(p, 5)
    [] k = 6 -> \/ ~Truthy(p.totals)
                \/ ~IsNumber(p.totals.total) \/ LeqZero(p.totals.total)
    [] OTHER -> FieldStepViolated(p, k)

C13_CreatedPending ==
  [][\A i \in (Len(orders) + 1)..Len(orders') :
       /\ orders'[i].status = S("pending")
       /\ orders'[i].payment.status = S("pending")
       /\ orders'[i].adminNotes = Str(<<>>)]_vars

\* the order of a payload carrying status shipped, payment.status paid and
\* adminNotes was stored, and is pending with empty notes
C13_Witness ==
  \E r \in Req :
    /\ req[r].kind = "post" /\ req[r].committed
    /\ req[r].payload.status = S("shipped")
    /\ req[r].payload.payment.status = S("paid")
    /\ req[r].payload.adminNotes = S("x")
    /\ orders[req[r].id].status = S("pending")
    /\ orders[req[r].id].payment.status = S("pending")
    /\ orders[req[r].id].adminNotes = Str(<<>>)

\* the step of request r that applied its update
UpdateApplied(r) ==
  req[r].pc = "update" /\ req'[r].pc # "update" /\ req'[r].committed

\* the update leaves every other order and every other field alone, and
\* sets updatedAt
UpdateFrame(r) ==
  /\ Len(orders') = Len(orders)
  /\ \A i \in 1..Len(orders) : i # req[r].id => orders'[i] = orders[i]
  /\ \A f \in {"customer", "delivery", "items", "totals", "orderNumber", "createdAt",
                "orderNotes"} :
       orders'[req[r].id][f] = orders[req[r].id][f]
  /\ orders'[req[r].id].payment.method = orders[req[r].id].payment.method
  /\ orders'[req[r].id].payment.transactionId = orders[req[r].id].payment.transactionId
  /\ orders'[req[r].id].updatedAt = now

\* C14 as stated: an update that goes through sets status, adminNotes and
\* payment.status to the values the request supplies, leaves the ones it
\* does not supply and every other field unchanged, and sets updatedAt.
C14_SuppliedFieldsChange ==
  [][\A r \in Req :
       UpdateApplied(r) =>
         /\ UpdateFrame(r)
         /\ orders'[req[r].id].status =
              IF req[r].body.status # Undefined THEN req[r].body.status
              ELSE orders[req[r].id].status
         /\ orders'[req[r].id].adminNotes =
              IF req[r].body.adminNotes # Undefined THEN req[r].body.adminNotes
              ELSE orders[req[r].id].adminNotes
         /\ orders'[req[r].id].payment.status =
              IF req[r].body.paymentStatus # Undefined THEN req[r].body.paymentStatus
              ELSE orders[req[r].id].payment.status]_vars

\* C14 (amended): an update that goes through sets status and payment.status
\* to the non-empty values the request supplies and adminNotes to the value
\* it supplies, empty or not; a status or paymentStatus that is absent or
\* empty leaves the field unchanged, every other field is unchanged, and
\* updatedAt is set.
C14_NonEmptyFieldsChange ==
  [][\A r \in Req :
       UpdateApplied(r) =>
         /\ UpdateFrame(r)
         /\ orders'[req[r].id].status =
              IF req[r].body.status \notin {Undefined, Str(<<>>)} THEN req[r].body.status
              ELSE orders[req[r].id].status
         /\ orders'[req[r].id].adminNotes =
              IF req[r].body.adminNotes # Undefined THEN req[r].body.adminNotes
              ELSE orders[req[r].id].adminNotes
         /\ orders'[req[r].id].payment.status =
              IF req[r].body.paymentStatus \notin {Undefined, Str(<<>>)}
              THEN req[r].body.paymentStatus
              ELSE orders[req[r].id].payment.status]_vars

\* an update of the adminNotes alone, at a later time than the creation, of
\* an order that is delivered and paid: both are kept, updatedAt moved
C14_Witness ==
  \E r \in Req :
    /\ req[r].kind = "put" /\ Done(r) /\ req[r].committed
    /\ req[r].body = PutBody(Undefined, S("x"), Undefined)
    /\ orders[req[r].id].status = S("delivered")
    /\ orders[req[r].id].payment.status = S("paid")
    /\ orders[req[r].id].adminNotes = S("x")
    /\ orders[req[r].id].updatedAt = now
    /\ orders[req[r].id].updatedAt > orders[req[r].id].createdAt

\* every stored order has a status and a payment.status of the enumerations
EnumeratedStatuses ==
  \A i \in 1..Len(orders) :
    /\ orders[i].status \in OrderStatuses
    /\ orders[i].payment.status \in PaymentStatuses

\* the update of request r is answered 400, has changed no order and has
\* dispatched nothing
UpdateRejected(r) ==
  /\ orders' = orders
  /\ ~req'[r].committed
  /\ req'[r].notify = "none"
  /\ req'[r].smsAttempts = 0 /\ req'[r].emailAttempts = 0
  /\ req'[r].pc = "done" /\ req'[r].resp.code = 400

\* C15 as stated: every stored order has a status and a payment.status of
\* the enumerations, and an update supplying a status or a paymentStatus
\* outside them is rejected, changes no order and dispatches nothing.
C15_OutsideValueRejected ==
  [][/\ EnumeratedStatuses'
     /\ \A r \in Req :
          (/\ req[r].pc = "update" /\ req'[r].pc # "update"
           /\ \/ req[r].body.status \notin OrderStatuses \cup {Undefined}
              \/ req[r].body.paymentStatus \notin PaymentStatuses \cup {Undefined})
            => UpdateRejected(r)]_vars

\* C15 (amended): every stored order has a status and a payment.status of
\* the enumerations, and an update supplying a non-empty status or
\* paymentStatus outside them is rejected, changes no order and dispatches
\* nothing; an empty status or paymentStatus is taken as not supplied.
C15_NonEmptyOutsideValueRejected ==
  [][/\ EnumeratedStatuses'
     /\ \A r \in Req :
          (/\ req[r].pc = "update" /\ req'[r].pc # "update"
           /\ \/ req[r].body.status \notin OrderStatuses \cup {Undefined, Str(<<>>)}
              \/ req[r].body.paymentStatus \notin PaymentStatuses \cup {Undefined, Str(<<>>)})
            => UpdateRejected(r)]_vars

\* an update to delivered with a paymentStatus outside the enumeration was
\* answered 400 and the order is still pending
C15_Witness ==
  \E r \in Req :
    /\ req[r].kind = "put" /\ Done(r)
    /\ req[r].body = PutBody(S("delivered"), Undefined, S("bogus"))
    /\ req[r].resp.code = 400 /\ req[r].resp.error = "Validation failed"
    /\ orders[req[r].id].status = S("pending")
    /\ req[r].notify = "none"

\* the update of request r was stopped by the storage
StorageFailed(r) == req'[r].thrown = "storage"

\* C16: an update to any of the six statuses is applied whatever status the
\* order has, delivered and cancelled included: unless the storage fails
\* the order has the requested status after the update.
C16_TransitionsUnguarded ==
  [][\A r \in Req :
       (/\ req[r].pc = "update" /\ req'[r].pc # "update"
        /\ req[r].body.status \in OrderStatuses
        /\ orders[req[r].id].status \in OrderStatuses
        /\ ~StorageFailed(r))
         => /\ req'[r].committed
            /\ orders'[req[r].id].status = req[r].body.status]_vars

\* a delivered order was set back to pending while another order, once
\* cancelled, is shipped
C16_Witness ==
  \E r \in Req :
    /\ req[r].kind = "put" /\ Done(r) /\ req[r].committed
    /\ req[r].previousStatus = S("delivered")
    /\ orders[req[r].id].status = S("pending")
    /\ req[r].resp.code = 200 /\ req[r].resp.order.status = S("pending")
    /\ \E i \in 1..Len(orders) : i # req[r].id /\ orders[i].status = S("shipped")

\* no stored order has the id or the order number that request r is for
NoSuchOrder(request, stored) ==
  IF request.kind = "number" THEN WithNumber(stored, request.number) = {}
  ELSE request.id \notin 1..Len(stored)

\* C17: a GET by id, a GET by order number or a PUT for an id or an order
\* number that no stored order has is answered 404, unless the storage
\* fails, changes no order and dispatches nothing.
C17_UnknownTargetNotFound ==
  [][\A r \in Req :
       (/\ req[r].pc = "idle"
        /\ req'[r].kind \in {"get", "number", "put"}
        /\ NoSuchOrder(req'[r], orders)
        /\ ~StorageFailed(r))
         => /\ orders' = orders
            /\ req'[r].notify = "none" /\ ~req'[r].committed
            /\ req'[r].pc = "done" /\ req'[r].resp.code = 404]_vars

\* C18: an update of an existing order that the storage fails is answered
\* 500, never 400.
C18_UpdateStorageFailureIs500 ==
  \A r \in Req :
    (/\ req[r].kind = "put" /\ Done(r)
     /\ req[r].id \in 1..Len(orders)
     /\ req[r].thrown = "storage")
      => req[r].resp.code = 500

\* C19: every POST /api/orders is answered: a request that is in flight,
\* waiting for the mail collaborator included, gets its response.
C19_PostAnswered ==
  \A r \in Req :
    (req[r].kind = "post" /\ req[r].pc \in {"save", "email", "sms"}) ~> Done(r)

\* C20: the response to a creation or an update that dispatched carries the
\* outcomes of the two channels next to the order.
C20_ResponseCarriesOutcomes ==
  \A r \in Req :
    (/\ req[r].kind \in {"post", "put"} /\ Done(r)
     /\ req[r].committed /\ Dispatched(r))
      => /\ "results" \in DOMAIN req[r].resp
         /\ req[r].resp.results = req[r].results

\* an optional field is a trimmed, non-empty string or is not there
TrimmedOrAbsent(v) ==
  \/ v = Absent
  \/ v.t = "string" /\ Len(v.s) > 0 /\ Trim(v.s) = v.s

\* C21: in every stored order customer.email, delivery.postalCode and
\* payment.transactionId are each a non-empty trimmed string or absent,
\* never an empty string, null or undefined.
C21_OptionalFieldsTrimmedOrAbsent ==
  \A i \in 1..Len(orders) :
    /\ TrimmedOrAbsent(orders[i].customer.email)
    /\ TrimmedOrAbsent(orders[i].delivery.postalCode)
    /\ TrimmedOrAbsent(orders[i].payment.transactionId)

\* the order of a payload with an email of white space only is stored
\* without email, next to one whose padded postalCode is stored trimmed
C21_Witness ==
  /\ \E r \in Req :
       /\ req[r].kind = "post" /\ req[r].committed
       /\ req[r].payload.customer.email = Blank
       /\ orders[req[r].id].customer.email = Absent
  /\ \E i \in 1..Len(orders) : orders[i].delivery.postalCode = Str(<<"a">>)

\* the order numbers of a page of orders
NumbersOf(page) == {page[k].orderNumber : k \in 1..Len(page)}

\* C22: a listing with page p and limit L over the n matching orders
\* returns totalOrders = n, totalPages = ceil(n / L) and the orders at the
\* positions (p - 1) * L + 1 .. min(p * L, n) of a newest-first ordering,
\* and shares no order with what a listing of another page of the same
\* orders returns.
C22_PagesPartitionTheOrders ==
  \A r \in Req :
    (req[r].kind = "list" /\ Done(r) /\ req[r].resp.code = 200) =>
      LET query == req[r].query
          n == Cardinality(Matching(orders, query.status))
      IN /\ req[r].resp.totalOrders = n
         /\ req[r].resp.totalPages = Ceil(n, LimitOf(query))
         /\ req[r].resp.orders \in FindOrders(orders, query)
         /\ \A page \in 1..Ceil(n, LimitOf(query)) :
              page # PageOf(query) =>
                \A other \in FindOrders(orders, [query EXCEPT !.page = Num(page)]) :
                  NumbersOf(other) \cap NumbersOf(req[r].resp.orders) = {}

\* C23: the SMS of a status update to one of the six statuses has a body of
\* that status alone, which no other of the six gets and which is not the
\* generic 'Order status updated.'; only a status outside the six gets the
\* generic body.
C23_StatusSmsDistinct ==
  \A r \in Req :
    (req[r].kind = "put" /\ Done(r) /\ req[r].notify = "status") =>
      /\ (req[r].smsBody[2] = GenericStatusMessage) <=> (req[r].body.status \notin OrderStatuses)
      /\ \A other \in OrderStatuses \ {req[r].body.status} :
           GetOrderStatusSMS(req[r].doc, other) # req[r].smsBody

\* the creations of the commit-then-notify checks: one that is stored, one
\* without an email address, one that the schema refuses
CommitPayloads ==
  {BasePayload,
   [BasePayload EXCEPT !.customer.email = Undefined],
   [BasePayload EXCEPT !.customer.firstName = Blank]}

\* two order creations in flight together, with every way the save can end
CommitNext ==
  \/ \E r \in {1, 2}, p \in CommitPayloads : PostReceive(r, p)
  \/ \E r \in {1, 2} : PostSave(r)
  \/ \E r \in {1, 2} : DispatchEmail(r)
  \/ \E r \in {1, 2} : DispatchSMS(r)
  \/ \E r \in {1, 2} : Finish(r)

SpecCommit == Init /\ [][CommitNext]_vars

\* the ways order.save() fails
SaveFailures == {"validation", "storage", "duplicate"}

Attempts(request) == request.emailAttempts + request.smsAttempts

\* C24: a POST /api/orders dispatches its confirmation only after its save
\* has succeeded (the order is in the store before the first channel is
\* tried), and a POST whose save fails, by a storage error or a schema
\* validation error, dispatches nothing and leaves the store as it was.
C24_CommitThenNotify ==
  [][\A r \in Req :
       req'[r].kind = "post" =>
         /\ (req'[r].notify = "confirmation" \/ Attempts(req'[r]) > 0) =>
               /\ req'[r].committed
               /\ req'[r].id \in 1..Len(orders')
               /\ orders'[req'[r].id] = req'[r].doc
         /\ Attempts(req'[r]) > Attempts(req[r]) =>
               /\ req[r].committed
               /\ req[r].id \in 1..Len(orders)
               /\ orders[req[r].id] = req[r].doc
         /\ req'[r].thrown \in SaveFailures =>
               /\ req'[r].notify = "none"
               /\ Attempts(req'[r]) = 0
               /\ ~req'[r].committed
               /\ req'[r].pc = "done"
               /\ req[r].pc = "save" => orders' = orders]_vars

\* one creation stored and its confirmation tried on a channel, next to a
\* creation whose save failed
C24_Witness ==
  \E r, q \in Req :
    /\ req[r].kind = "post" /\ req[r].committed /\ Attempts(req[r]) > 0
    /\ orders[req[r].id] = req[r].doc
    /\ req[q].kind = "post" /\ req[q].thrown \in SaveFailures /\ Done(q)
    /\ req[q].notify = "none"

\* updates that each supply one field
DisjointBodies ==
  {PutBody(S("shipped"), Undefined, Undefined),
   PutBody(Undefined, S("x"), Undefined),
   PutBody(Undefined, Undefined, S("paid"))}

\* one order is created, then two updates of it are in flight together, each
\* of one field
DisjointNext ==
  \/ orders = <<>> /\ PostReceive(1, [BasePayload EXCEPT !.customer.email = Undefined])
  \/ PostSave(1)
  \/ \E r \in {1, 2} : DispatchSMS(r)
  \/ \E r \in {1, 2}, body \in DisjointBodies : PutFind(r, 1, body)
  \/ \E r \in {1, 2} : PutUpdate(r)
  \/ \E r \in {1, 2} : Finish(r)

SpecDisjoint == Init /\ [][DisjointNext]_vars

\* the keys of updateData other than updatedAt
Supplied(body) ==
  {f \in {"status", "adminNotes", "payment.status"} :
     CASE f = "status" -> Truthy(body.status)
       [] f = "adminNotes" -> body.adminNotes # Undefined
       [] f = "payment.status" -> Truthy(body.paymentStatus)}

\* the stored order has every value the body supplies
Holds(doc, body) ==
  /\ "status" \in Supplied(body) => doc.status = body.status
  /\ "adminNotes" \in Supplied(body) => doc.adminNotes = body.adminNotes
  /\ "payment.status" \in Supplied(body) => doc.payment.status = body.paymentStatus

\* C25: when two PUT /api/orders/:id requests on the same order that supply
\* disjoint fields have both written, whatever the order of their reads and
\* writes, the stored order has the values of both.
C25_DisjointUpdatesKept ==
  \A r, q \in Req :
    (/\ r # q
     /\ req[r].kind = "put" /\ req[q].kind = "put"
     /\ req[r].committed /\ req[q].committed
     /\ req[r].id = req[q].id
     /\ Supplied(req[r].body) # {} /\ Supplied(req[q].body) # {}
     /\ Supplied(req[r].body) \cap Supplied(req[q].body) = {}) =>
      /\ Holds(orders[req[r].id], req[r].body)
      /\ Holds(orders[req[r].id], req[q].body)

\* a status-only update and a notes-only update of one order have both
\* written, and the notes-only one read the order before the other wrote
C25_Witness ==
  \E r, q \in Req :
    /\ r # q
    /\ req[r].kind = "put" /\ req[q].kind = "put"
    /\ req[r].committed /\ req[q].committed
    /\ req[r].id = req[q].id
    /\ Supplied(req[r].body) = {"status"}
    /\ Supplied(req[q].body) = {"adminNotes"}
    /\ req[r].previousStatus # req[r].body.status
    /\ req[q].currentStatus # req[r].body.status
    /\ orders[req[r].id].status = req[r].body.status
    /\ orders[req[r].id].adminNotes = req[q].body.adminNotes

====
